---- MODULE Spec2Model ----
(***************************************************************************)
(* Model of the intent engine and the intent-driven editor loop of         *)
(* src/main.py, and of the editor of src/puny.py.                          *)
(*                                                                         *)
(* Time is counted in integer milliseconds: the code keeps time.time()     *)
(* seconds and multiplies every difference by 1000 before comparing it, so *)
(* a difference of the model is the code's (a - b) * 1000.                 *)
(* A Python str is modelled as the sequence of its code points, so that    *)
(* chr(k) is <<k>> and "dd" is <<100, 100>>.  An optional value is <<>>    *)
(* for None and <<v>> for a value v.                                       *)
(*                                                                         *)
(* clock is the value time.time() returns; every key arrives dt >= 0 ms    *)
(* after the one before it, so the clock never runs backwards.  The        *)
(* arithmetic on the differences is exact, where the code's is in floats.  *)
(*                                                                         *)
(* log and probe record calls and what they returned; nkeys and last_key   *)
(* record the keys read.  The program has no such fields.  raised records  *)
(* that an exception has left feed, which ends the program.                *)
(*                                                                         *)
(* The two programs share nothing.  The variables of src/puny.py stand at  *)
(* the values of its module globals while the steps of src/main.py are     *)
(* taken, and the other way round.  saved is the buffer as load_buffer or  *)
(* the last save_buffer left it, and puny_exit tells how the editor was    *)
(* left; src/puny.py has no such fields.                                   *)
(***************************************************************************)
EXTENDS Integers, Sequences, FiniteSets, TLC

VARIABLES
    clock,              \* time.time() at the last key, in ms
    buffer,             \* IntentEngine.buffer: sequence of Keystroke
    last_intent_phrase, \* IntentEngine.last_intent_phrase
    last_intent_time,   \* IntentEngine.last_intent_time
    repeat_level,       \* IntentEngine.repeat_level
    intent,             \* what the last feed returned (main: intent)
    raised,             \* an exception has left feed
    log,                \* history of the feed calls: key, time, returned value
    probe,              \* what the last call of _confidence_from_timing returned
    line,               \* main: buffer[cursor_y]
    cursor_x,           \* main: cursor_x
    pending_insert,     \* main: pending_insert
    status,             \* main: status
    running,            \* main: the while loop has not been left
    nkeys,              \* number of keys read so far
    last_key,           \* the key read last
    puny_buffer,        \* puny.py: buffer, the list of lines
    dirty,              \* puny.py: dirty
    cursor_row,         \* puny.py main: cursor_row
    cursor_col,         \* puny.py main: cursor_col
    saved,              \* the buffer when it was loaded or last saved
    puny_exit           \* "no", or how sys.exit was reached in handle_input

vars == <<clock, buffer, last_intent_phrase, last_intent_time, repeat_level,
          intent, raised, log, probe, line, cursor_x, pending_insert, status,
          running, nkeys, last_key, puny_buffer, dirty, cursor_row,
          cursor_col, saved, puny_exit>>

\* the variables of src/main.py
intent_vars == <<clock, buffer, last_intent_phrase, last_intent_time,
                 repeat_level, intent, raised, log, probe, line, cursor_x,
                 pending_insert, status, running, nkeys, last_key>>

\* the variables of src/puny.py
puny_vars == <<puny_buffer, dirty, cursor_row, cursor_col, saved, puny_exit>>

engine_vars == <<buffer, last_intent_phrase, last_intent_time, repeat_level>>

repetition_vars == <<last_intent_phrase, last_intent_time, repeat_level>>

editor_vars == <<line, cursor_x, pending_insert, status, running>>

\* ------------------------------------------------------------------ bounds
\* keys read in one run of the repetition, scope and editor specifications
MaxKeys == 5

\* keys read in one run of the phrase and timing specifications
MaxShortKeys == 4

\* lines in the buffer of puny.py
MaxLines == 3

\* characters in the buffer of puny.py, over all its lines
MaxChars == 3

\* keys read in one run of the editor loop started on an arbitrary line
MaxEditKeys == 3

\* length of the line the editor loop is started on
MaxLine == 3

\* ------------------------------------------------------- values and types
None == <<>>

Some(v) == <<v>>

Keystroke(key, timestamp) == [key |-> key, time |-> timestamp]

Intent(name, phrase, confidence, level, scope, reasons, preview) ==
    [name |-> name, phrase |-> phrase, confidence |-> confidence,
     level |-> level, scope |-> scope, reasons |-> reasons,
     preview |-> preview]

\* ------------------------------------------------------ engine parameters
window_ms == 400

repeat_window_ms == 600

\* "dd", "cc", "wr", "ii" as code points
phrases ==
    (<<100, 100>> :> "delete") @@ (<<99, 99>> :> "clone") @@
    (<<119, 114>> :> "wrap") @@ (<<105, 105>> :> "insert")

\* ------------------------------------------------------- engine functions
chr(k) == <<k>>

\* chr(k) raises ValueError unless k is in range(0x110000)
ChrRaises(k) == k < 0 \/ k > 1114111

\* faulty variant: the filter of _current_phrase has lost its lower bound
CurrentPhraseRaisesUnfiltered(buf) ==
    \E i \in DOMAIN buf : buf[i].key <= 126 /\ ChrRaises(buf[i].key)

\* _current_phrase raises: chr is applied to a key it has no character for
CurrentPhraseRaises(buf) ==
    \E i \in DOMAIN buf :
        32 <= buf[i].key /\ buf[i].key <= 126 /\ ChrRaises(buf[i].key)

\* faulty variant: a keystroke aged exactly window_ms is dropped
TrimStrict(buf, now) ==
    SelectSeq(buf, LAMBDA k : now - k.time < window_ms)

Trim(buf, now) ==
    SelectSeq(buf, LAMBDA k : now - k.time <= window_ms)

\* faulty variant: only the last two printable keys of the window are looked at
CurrentPhraseSuffix(buf) ==
    LET p == SelectSeq(buf, LAMBDA k : 32 <= k.key /\ k.key <= 126)
        c == [i \in DOMAIN p |-> p[i].key]
    IN  IF Len(c) > 2 THEN SubSeq(c, Len(c) - 1, Len(c)) ELSE c

\* faulty variant: a non-printable key starts the phrase afresh
RECURSIVE CurrentPhraseBreaking(_)
CurrentPhraseBreaking(buf) ==
    IF buf = <<>> THEN <<>>
    ELSE LET k == buf[Len(buf)]
             chars == CurrentPhraseBreaking(SubSeq(buf, 1, Len(buf) - 1))
         IN  IF 32 <= k.key /\ k.key <= 126 THEN chars \o <<k.key>>
             ELSE <<>>

RECURSIVE CurrentPhrase(_)
CurrentPhrase(buf) ==
    IF buf = <<>> THEN <<>>
    ELSE LET k == buf[Len(buf)]
             chars == CurrentPhrase(SubSeq(buf, 1, Len(buf) - 1))
         IN  IF 32 <= k.key /\ k.key <= 126 THEN chars \o chr(k.key)
             ELSE chars

\* the list of intervals built by _average_interval_ms, for i in 1..len-1
RECURSIVE Intervals(_, _)
Intervals(buf, n) ==
    IF n < 2 THEN <<>>
    ELSE Append(Intervals(buf, n - 1), buf[n].time - buf[n - 1].time)

RECURSIVE sum(_)
sum(s) == IF s = <<>> THEN 0 ELSE Head(s) + sum(Tail(s))

\* _average_interval_ms raises ZeroDivisionError: it divides by len(intervals)
AverageIntervalMsRaises(buf) ==
    Len(buf) >= 2 /\ Len(Intervals(buf, Len(buf))) = 0

\* the average is the exact fraction num / den
AverageIntervalMs(buf) ==
    IF Len(buf) < 2 THEN None
    ELSE LET intervals == Intervals(buf, Len(buf))
         IN  Some([num |-> sum(intervals), den |-> Len(intervals)])

\* faulty variant: an average of exactly 120 ms still counts as fast
ConfidenceFromTimingInclusive(buf) ==
    LET avg == AverageIntervalMs(buf)
    IN  IF avg = None THEN "low"
        ELSE IF avg[1].num <= 120 * avg[1].den THEN "high"
        ELSE IF avg[1].num < 250 * avg[1].den THEN "medium"
        ELSE "low"

ConfidenceFromTiming(buf) ==
    LET avg == AverageIntervalMs(buf)
    IN  IF avg = None THEN "low"
        ELSE IF avg[1].num < 120 * avg[1].den THEN "high"
        ELSE IF avg[1].num < 250 * avg[1].den THEN "medium"
        ELSE "low"

\* faulty variant: a gap of exactly repeat_window_ms no longer counts as a repeat
ResolveRepetitionStrict(phrase, now, lphrase, ltime, level) ==
    [last_intent_phrase |-> Some(phrase),
     last_intent_time   |-> Some(now),
     repeat_level       |->
        IF /\ lphrase = Some(phrase)
           /\ ltime # None
           /\ now - ltime[1] < repeat_window_ms
        THEN level + 1
        ELSE 1]

\* faulty variant: the level counts the repeats, so a first emission has level 0
ResolveRepetitionCountsRepeats(phrase, now, lphrase, ltime, level) ==
    [last_intent_phrase |-> Some(phrase),
     last_intent_time   |-> Some(now),
     repeat_level       |->
        IF /\ lphrase = Some(phrase)
           /\ ltime # None
           /\ now - ltime[1] <= repeat_window_ms
        THEN level + 1
        ELSE 0]

\* _resolve_repetition: the repetition state after recognising phrase at now
ResolveRepetition(phrase, now, lphrase, ltime, level) ==
    [last_intent_phrase |-> Some(phrase),
     last_intent_time   |-> Some(now),
     repeat_level       |->
        IF /\ lphrase = Some(phrase)
           /\ ltime # None
           /\ now - ltime[1] <= repeat_window_ms
        THEN level + 1
        ELSE 1]

\* faulty variant: the confidence is looked at before the level
ResolveScopeConfidenceFirst(confidence, level) ==
    IF confidence = "high"
    THEN (IF level >= 3 THEN "block" ELSE IF level >= 2 THEN "line" ELSE "word")
    ELSE IF confidence = "medium"
         THEN (IF level >= 3 THEN "block" ELSE IF level = 1 THEN "word" ELSE "line")
    ELSE "character"

\* faulty variant: high confidence at level 1 already selects the line
ResolveScopeEager(confidence, level) ==
    IF level >= 3 THEN "block"
    ELSE IF confidence = "high"
         THEN (IF level >= 1 THEN "line" ELSE "word")
    ELSE IF confidence = "medium"
         THEN (IF level = 1 THEN "word" ELSE "line")
    ELSE "character"

ResolveScope(confidence, level) ==
    IF level >= 3 THEN "block"
    ELSE IF confidence = "high"
         THEN (IF level >= 2 THEN "line" ELSE "word")
    ELSE IF confidence = "medium"
         THEN (IF level = 1 THEN "word" ELSE "line")
    ELSE "character"

\* faulty variant: the repeat count is reported from level 1 on
ExplainEveryLevel(confidence, level) ==
    LET first == IF confidence = "high" THEN <<"fast typing">>
                 ELSE IF confidence = "medium"
                      THEN <<"moderate typing speed">>
                 ELSE <<"slow or deliberate typing">>
    IN  IF level >= 1
        THEN Append(first, "repeated intent (x" \o ToString(level) \o ")")
        ELSE first

Explain(confidence, level) ==
    LET first == IF confidence = "high" THEN <<"fast typing">>
                 ELSE IF confidence = "medium"
                      THEN <<"moderate typing speed">>
                 ELSE <<"slow or deliberate typing">>
    IN  IF level > 1
        THEN Append(first, "repeated intent (x" \o ToString(level) \o ")")
        ELSE first

\* faulty variant: the block scope has no preview of its own
ResolvePreviewNoBlock(scope) ==
    IF scope = "character" THEN "current character"
    ELSE IF scope = "word" THEN "current word"
    ELSE IF scope = "line" THEN "current line"
    ELSE "unknown"

ResolvePreview(scope) ==
    IF scope = "character" THEN "current character"
    ELSE IF scope = "word" THEN "current word"
    ELSE IF scope = "line" THEN "current line"
    ELSE IF scope = "block" THEN "current block"
    ELSE "unknown"

\* feed, lines 54-68: the phrase of the window buf is in the grammar
Emit(buf, phrase, now) ==
    LET confidence == ConfidenceFromTiming(buf)
        rep   == ResolveRepetition(phrase, now, last_intent_phrase,
                                   last_intent_time, repeat_level)
        level == rep.repeat_level
        scope == ResolveScope(confidence, level)
    IN  /\ last_intent_phrase' = rep.last_intent_phrase
        /\ last_intent_time' = rep.last_intent_time
        /\ repeat_level' = rep.repeat_level
        /\ intent' = Some(Intent(phrases[phrase], phrase, confidence, level,
                                 scope, Explain(confidence, level),
                                 ResolvePreview(scope)))

\* faulty variant: a window that is no phrase resets the repetition
NoIntentReset ==
    /\ last_intent_phrase' = None
    /\ last_intent_time' = None
    /\ repeat_level' = 0
    /\ intent' = None

\* feed falls off its end: the phrase is not in the grammar
NoIntent ==
    /\ UNCHANGED <<last_intent_phrase, last_intent_time, repeat_level>>
    /\ intent' = None

\* an exception leaves feed: the key is in the window, nothing is returned
Raise ==
    /\ raised' = TRUE
    /\ UNCHANGED <<last_intent_phrase, last_intent_time, repeat_level, intent,
                   log>>

\* faulty variant: the window is emptied once its phrase has been emitted
feedClearing(key, now) ==
    LET buf    == Trim(Append(buffer, Keystroke(key, now)), now)
        phrase == CurrentPhrase(buf)
    IN  /\ buffer' = (IF phrase \in DOMAIN phrases THEN <<>> ELSE buf)
        /\ IF phrase \in DOMAIN phrases
           THEN Emit(buf, phrase, now)
           ELSE NoIntent
        /\ raised' = FALSE
        /\ log' = Append(log, [key |-> key, time |-> now, out |-> intent'])
        /\ probe' = None

\* IntentEngine.feed(key) called when time.time() is now
feed(key, now) ==
    LET buf    == Trim(Append(buffer, Keystroke(key, now)), now)
        phrase == CurrentPhrase(buf)
    IN  /\ buffer' = buf
        /\ IF CurrentPhraseRaises(buf) THEN Raise
           ELSE IF phrase \in DOMAIN phrases
                THEN IF AverageIntervalMsRaises(buf) THEN Raise
                     ELSE /\ Emit(buf, phrase, now)
                          /\ raised' = FALSE
                          /\ log' = Append(log, [key |-> key, time |-> now,
                                                 out |-> intent'])
           ELSE /\ NoIntent
                /\ raised' = FALSE
                /\ log' = Append(log, [key |-> key, time |-> now,
                                       out |-> intent'])
        /\ probe' = None

\* --------------------------------------------------------- the editor loop
KEY_LEFT == 260

KEY_RIGHT == 261

\* line[:i] and line[i:]
Upto(s, i) == SubSeq(s, 1, i)

From(s, i) == SubSeq(s, i + 1, Len(s))

\* str.isspace() of one character below code point 256
IsSpace(c) == c \in {9, 10, 11, 12, 13, 28, 29, 30, 31, 32, 133, 160}

RECURSIVE SkipWhile(_, _, _)
\* the first index >= i (0-based) at which IsSpace(line[i]) # space, or len(line)
SkipWhile(s, i, space) ==
    IF i < Len(s) /\ (IsSpace(s[i + 1]) <=> space)
    THEN SkipWhile(s, i + 1, space)
    ELSE i

\* faulty variant: the whitespace skipped is deleted with the word
delete_wordFromCursor(s, x) ==
    IF x >= Len(s) THEN <<s, x>>
    ELSE LET start == SkipWhile(s, x, TRUE)
             end   == SkipWhile(s, start, FALSE)
         IN  IF start = end THEN <<s, x>>
             ELSE <<Upto(s, x) \o From(s, end), x>>

\* delete_word(line, cursor_x): the pair <<new_line, new_cursor_x>>
delete_word(s, x) ==
    IF x >= Len(s) THEN <<s, x>>
    ELSE LET start == SkipWhile(s, x, TRUE)
             end   == SkipWhile(s, start, FALSE)
         IN  IF start = end THEN <<s, x>>
             ELSE <<Upto(s, start) \o From(s, end), start>>

\* lines 249-250
Break ==
    /\ running' = FALSE
    /\ UNCHANGED <<engine_vars, intent, raised, log, probe, line, cursor_x,
                   pending_insert, status>>

\* lines 252-254
CursorLeft ==
    /\ cursor_x' = (IF cursor_x - 1 > 0 THEN cursor_x - 1 ELSE 0)
    /\ UNCHANGED <<engine_vars, intent, raised, log, probe, line,
                   pending_insert, status, running>>

\* faulty variant: the cursor moves right without looking at the line
CursorRightUnclamped ==
    /\ cursor_x' = cursor_x + 1
    /\ UNCHANGED <<engine_vars, intent, raised, log, probe, line,
                   pending_insert, status, running>>

\* lines 255-257
CursorRight ==
    /\ cursor_x' = (IF cursor_x + 1 < Len(line) THEN cursor_x + 1 ELSE Len(line))
    /\ UNCHANGED <<engine_vars, intent, raised, log, probe, line,
                   pending_insert, status, running>>

\* lines 259-264
InsertKey(key) ==
    /\ line' = Upto(line, cursor_x) \o chr(key) \o From(line, cursor_x)
    /\ cursor_x' = cursor_x + 1
    /\ pending_insert' = FALSE
    /\ UNCHANGED <<engine_vars, intent, raised, log, probe, status, running>>

\* faulty variant: a character delete always takes the character before the
\* cursor
ApplyDeleteBefore(it, s, x) ==
    LET afterChar ==
            IF it # None /\ it[1].name = "delete" /\ it[1].scope = "character"
            THEN IF x > 0 THEN <<Upto(s, x - 1) \o From(s, x), x - 1>>
                 ELSE <<s, x>>
            ELSE <<s, x>>
    IN  IF it # None /\ it[1].name = "delete" /\ it[1].scope = "word"
        THEN delete_word(afterChar[1], afterChar[2])
        ELSE afterChar

\* lines 283-296: the line and the cursor after the intent it is applied
ApplyDelete(it, s, x) ==
    LET afterChar ==
            IF it # None /\ it[1].name = "delete" /\ it[1].scope = "character"
            THEN IF x < Len(s) THEN <<Upto(s, x) \o From(s, x + 1), x>>
                 ELSE IF x > 0 THEN <<Upto(s, x - 1) \o From(s, x), x - 1>>
                 ELSE <<s, x>>
            ELSE <<s, x>>
    IN  IF it # None /\ it[1].name = "delete" /\ it[1].scope = "word"
        THEN delete_word(afterChar[1], afterChar[2])
        ELSE afterChar

\* lines 266-296
FeedKey(key) ==
    /\ feed(key, clock')
    /\ IF raised' THEN UNCHANGED <<status, pending_insert, line, cursor_x>>
       ELSE /\ status' =
                  (IF intent' # None THEN "INTENT EMITTED" ELSE "LISTENING")
            /\ pending_insert' =
                  (IF intent' # None /\ intent'[1].name = "insert" THEN TRUE
                   ELSE pending_insert)
            /\ line' = ApplyDelete(intent', line, cursor_x)[1]
            /\ cursor_x' = ApplyDelete(intent', line, cursor_x)[2]
    /\ UNCHANGED running

\* which branch of the loop body a key takes
Branch(key, pending) ==
    IF key = 113 THEN "break"
    ELSE IF key = KEY_LEFT THEN "left"
    ELSE IF key = KEY_RIGHT THEN "right"
    ELSE IF pending /\ 32 <= key /\ key <= 126 THEN "insert"
    ELSE "feed"

\* one iteration of the while loop of main: getch returns key, dt ms after
\* the previous key
MainLoop(key, dt) ==
    /\ running
    /\ ~raised
    /\ UNCHANGED puny_vars
    /\ clock' = clock + dt
    /\ nkeys' = nkeys + 1
    /\ last_key' = Some(key)
    /\ LET b == Branch(key, pending_insert)
       IN  CASE b = "break"  -> Break
             [] b = "left"   -> CursorLeft
             [] b = "right"  -> CursorRight
             [] b = "insert" -> InsertKey(key)
             [] b = "feed"   -> FeedKey(key)

\* ------------------------------------------------------------ the engine
\* puny.py is not running: its globals as the module sets them
PunyGlobals ==
    /\ puny_buffer = <<>>
    /\ dirty = FALSE
    /\ cursor_row = 0
    /\ cursor_col = 0
    /\ saved = <<>>
    /\ puny_exit = "no"

\* a fresh IntentEngine and the locals of main before its loop
InitIntent ==
    /\ clock = 0
    /\ buffer = <<>>
    /\ last_intent_phrase = None
    /\ last_intent_time = None
    /\ repeat_level = 0
    /\ intent = None
    /\ raised = FALSE
    /\ log = <<>>
    /\ probe = None
    /\ line = <<104, 101, 108, 108, 111, 32, 119, 111, 114, 108, 100>>
    /\ cursor_x = 0
    /\ pending_insert = FALSE
    /\ status = "LISTENING"
    /\ running = TRUE
    /\ nkeys = 0
    /\ last_key = None

Init == InitIntent /\ PunyGlobals

\* one call of engine.feed(key), dt ms after the previous one
Feed(key, dt) ==
    /\ ~raised
    /\ clock' = clock + dt
    /\ feed(key, clock')
    /\ nkeys' = nkeys + 1
    /\ last_key' = Some(key)
    /\ UNCHANGED editor_vars
    /\ UNCHANGED puny_vars

\* one call of engine._confidence_from_timing() on the engine as it is
Classify ==
    /\ probe = None
    /\ probe' = Some(ConfidenceFromTiming(buffer))
    /\ UNCHANGED <<clock, engine_vars, intent, raised, log, editor_vars, nkeys,
                   last_key, puny_vars>>

\* d, i, ESC: repetition across emissions
Keys == {100, 105, 27}

Deltas == {0, 250, 600}

Next == \E key \in Keys, dt \in Deltas : nkeys < MaxKeys /\ Feed(key, dt)

Spec == Init /\ [][Next]_vars

\* d, ESC at every confidence: the scope of an intent
ScopeKeys == {100, 27}

ScopeDeltas == {0, 240, 250}

NextScope ==
    \E key \in ScopeKeys, dt \in ScopeDeltas : nkeys < MaxKeys /\ Feed(key, dt)

SpecScope == Init /\ [][NextScope]_vars

\* d, ESC: the window and the timing of the keys in it
TimingKeys == {100, 27}

TimingDeltas == {0, 50, 240, 250, 400, 500}

NextTiming ==
    \/ \E key \in TimingKeys, dt \in TimingDeltas :
          nkeys < MaxShortKeys /\ Feed(key, dt)
    \/ Classify

SpecTiming == Init /\ [][NextTiming]_vars

\* d, D, w, r, z, ESC: which windows are phrases
PhraseKeys == {100, 68, 119, 114, 122, 27}

PhraseDeltas == {50, 500}

NextPhrase ==
    \E key \in PhraseKeys, dt \in PhraseDeltas :
        nkeys < MaxShortKeys /\ Feed(key, dt)

SpecPhrase == Init /\ [][NextPhrase]_vars

\* i, q, x, ESC and the arrows: the editor loop around an insert intent
MainKeys == {105, 113, 120, 27, KEY_LEFT, KEY_RIGHT}

MainDeltas == {50, 500}

NextMain ==
    \E key \in MainKeys, dt \in MainDeltas : nkeys < MaxKeys /\ MainLoop(key, dt)

SpecMain == Init /\ [][NextMain]_vars

\* the editor loop on a line that earlier inserts and deletes have left: any
\* text of spaces and a's up to MaxLine long with the cursor anywhere in it.
\* The engine has returned an Intent for dd or ii at time 0 and none for an
\* ESC fed at 1000 ms, which is the one keystroke of its window; the clock
\* is at 2000 ms.  log and nkeys count from here.
EditChars == {32, 97}

EditLines == UNION {[1..n -> EditChars] : n \in 0..MaxLine}

InitEdit ==
    /\ clock = 2000
    /\ buffer = <<Keystroke(27, 1000)>>
    /\ last_intent_phrase \in {Some(<<100, 100>>), Some(<<105, 105>>)}
    /\ last_intent_time = Some(0)
    /\ repeat_level = 1
    /\ intent = None
    /\ raised = FALSE
    /\ log = <<>>
    /\ probe = None
    /\ line \in EditLines
    /\ cursor_x \in 0..Len(line)
    /\ pending_insert = FALSE
    /\ status = "LISTENING"
    /\ running = TRUE
    /\ nkeys = 0
    /\ last_key = Some(27)
    /\ PunyGlobals

\* d, i and the arrows, fast (word scope) and slow (character scope)
EditKeys == {100, 105, KEY_LEFT, KEY_RIGHT}

EditDeltas == {50, 300}

NextEdit ==
    \E key \in EditKeys, dt \in EditDeltas :
        nkeys < MaxEditKeys /\ MainLoop(key, dt)

SpecEdit == InitEdit /\ [][NextEdit]_vars

\* every kind of key code getch can return and some it cannot: -1 (no key),
\* NUL, space, ~, DEL, one past the last code point, and d
RaiseKeys == {-1, 0, 32, 126, 127, 1114112, 100}

RaiseDeltas == {0, 500}

NextRaise ==
    \E key \in RaiseKeys, dt \in RaiseDeltas :
        nkeys < MaxShortKeys /\ Feed(key, dt)

SpecRaise == Init /\ [][NextRaise]_vars

\* ---------------------------------------------------- the editor of puny.py
\* s[:i] and s[i:] of Python, which clamp an index past the end (i >= 0)
PyUpto(s, i) == SubSeq(s, 1, IF i > Len(s) THEN Len(s) ELSE i)

PyFrom(s, i) == SubSeq(s, (IF i > Len(s) THEN Len(s) ELSE i) + 1, Len(s))

\* list.insert(i, x) and the list left by list.pop(i), for 0 <= i
ListInsert(b, i, x) == PyUpto(b, i) \o <<x>> \o PyFrom(b, i)

ListPop(b, i) == PyUpto(b, i) \o PyFrom(b, i + 1)

\* the state handle_input works on: the globals buffer and dirty, the cursor
\* it is given and returns, what save_buffer wrote and whether sys.exit ran
PunyState(b, d, row, col, sv, ex) ==
    [buffer |-> b, dirty |-> d, row |-> row, col |-> col, saved |-> sv,
     exit |-> ex]

\* insert_char(line, col, char) on the state st
insert_char(st, ln, col, char) ==
    IF 0 <= ln /\ ln < Len(st.buffer)
    THEN [st EXCEPT
            !.buffer[ln + 1] = PyUpto(@, col) \o <<char>> \o PyFrom(@, col),
            !.dirty = TRUE]
    ELSE st

\* delete_char(line, col) on the state st
delete_char(st, ln, col) ==
    IF 0 <= ln /\ ln < Len(st.buffer)
    THEN IF col < Len(st.buffer[ln + 1])
         THEN [st EXCEPT
                 !.buffer[ln + 1] = PyUpto(@, col) \o PyFrom(@, col + 1),
                 !.dirty = TRUE]
         ELSE IF col = Len(st.buffer[ln + 1]) /\ ln < Len(st.buffer) - 1
         THEN [st EXCEPT
                 !.buffer = ListPop([st.buffer EXCEPT
                                        ![ln + 1] = @ \o st.buffer[ln + 2]],
                                    ln + 1),
                 !.dirty = TRUE]
         ELSE st
    ELSE st

\* lines 173-185: ESC and the two characters read after it
Escape(st, ch2, ch3) ==
    IF ch2 # 91 THEN st
    ELSE IF ch3 = 65
         THEN [st EXCEPT !.row = IF st.row - 1 > 0 THEN st.row - 1 ELSE 0]
    ELSE IF ch3 = 66
         THEN [st EXCEPT !.row = IF st.row + 1 < Len(st.buffer) - 1
                                 THEN st.row + 1 ELSE Len(st.buffer) - 1]
    ELSE IF ch3 = 67
         THEN [st EXCEPT !.col = IF st.col + 1 < Len(st.buffer[st.row + 1])
                                 THEN st.col + 1
                                 ELSE Len(st.buffer[st.row + 1])]
    ELSE IF ch3 = 68
         THEN [st EXCEPT !.col = IF st.col - 1 > 0 THEN st.col - 1 ELSE 0]
    ELSE st

\* lines 188-194: the line is split at the cursor
Enter(st) ==
    LET ln == st.buffer[st.row + 1]
    IN  [st EXCEPT
           !.buffer = [ListInsert(st.buffer, st.row + 1, PyFrom(ln, st.col))
                          EXCEPT ![st.row + 1] = PyUpto(ln, st.col)],
           !.row = st.row + 1,
           !.col = 0]

\* lines 197-206
Backspace(st) ==
    IF st.col > 0
    THEN [delete_char(st, st.row, st.col - 1) EXCEPT !.col = st.col - 1]
    ELSE IF st.row > 0
    THEN [st EXCEPT
            !.row = st.row - 1,
            !.col = Len(st.buffer[st.row]),
            !.buffer = ListPop([st.buffer EXCEPT
                                   ![st.row] = @ \o st.buffer[st.row + 1]],
                               st.row)]
    ELSE st

\* lines 214-218: save_buffer writes the buffer out
CtrlS(st) == [st EXCEPT !.saved = st.buffer, !.dirty = FALSE]

\* lines 221-232: response is the character read at the prompt; y is 121
\* and Y, which lower() turns into y, is 89
CtrlQ(st, response) ==
    IF st.dirty
    THEN IF response \in {121, 89} THEN [st EXCEPT !.exit = "confirmed"]
         ELSE st
    ELSE [st EXCEPT !.exit = "unprompted"]

\* lines 235-237
PrintableKey(st, ch) ==
    IF 32 <= ch /\ ch <= 126
    THEN [insert_char(st, st.row, st.col, ch) EXCEPT !.col = st.col + 1]
    ELSE st

\* handle_input on the state st; inp is the characters stdin holds, of which
\* it reads one, three after ESC, and two at the prompt of Ctrl+Q
handle_input(st, inp) ==
    LET ch == inp[1]
    IN  IF ch = 27 THEN Escape(st, inp[2], inp[3])
        ELSE IF ch = 13 \/ ch = 10 THEN Enter(st)
        ELSE IF ch = 127 THEN Backspace(st)
        ELSE IF ch = 4 THEN delete_char(st, st.row, st.col)
        ELSE IF ch = 19 THEN CtrlS(st)
        ELSE IF ch = 17 THEN CtrlQ(st, inp[2])
        ELSE PrintableKey(st, ch)

\* faulty variant: the column is left as handle_input returned it
ClampColumnNot(col, ln) == col

\* line 271: min(cursor_col, len(buffer[cursor_row]))
ClampColumn(col, ln) == IF col < Len(ln) THEN col ELSE Len(ln)

\* the number of characters in the buffer b
RECURSIVE Chars(_)
Chars(b) == IF b = <<>> THEN 0 ELSE Len(Head(b)) + Chars(Tail(b))

\* one iteration of the while loop of main (lines 266-271) on the input inp;
\* the buffer is kept within MaxLines lines and MaxChars characters
PunyLoop(inp) ==
    /\ puny_exit = "no"
    /\ inp[1] \in {13, 10} => Len(puny_buffer) < MaxLines
    /\ (32 <= inp[1] /\ inp[1] <= 126) => Chars(puny_buffer) < MaxChars
    /\ LET st == handle_input(PunyState(puny_buffer, dirty, cursor_row,
                                        cursor_col, saved, "no"), inp)
       IN  /\ puny_buffer' = st.buffer
           /\ dirty' = st.dirty
           /\ cursor_row' = st.row
           /\ cursor_col' = (IF st.exit = "no"
                             THEN ClampColumn(st.col, st.buffer[st.row + 1])
                             ELSE st.col)
           /\ saved' = st.saved
           /\ puny_exit' = st.exit
    /\ UNCHANGED intent_vars

\* the lines load_buffer can give: a's, at most MaxChars of them
PunyLineSet == UNION {[1..n -> {97}] : n \in 0..MaxChars}

\* the buffers load_buffer can give that have at least one line
PunyBuffers ==
    {b \in UNION {[1..n -> PunyLineSet] : n \in 1..MaxLines} :
        Chars(b) <= MaxChars}

\* main up to its loop (lines 255-263): the file is loaded, the cursor is at
\* the top left
InitPuny ==
    /\ InitIntent
    /\ puny_buffer \in PunyBuffers
    /\ saved = puny_buffer
    /\ dirty = FALSE
    /\ cursor_row = 0
    /\ cursor_col = 0
    /\ puny_exit = "no"

\* the arrows and Home, Enter, Backspace, Ctrl+D, Ctrl+S, Ctrl+Q answered
\* y and n, a, TAB
PunyInputs ==
    {<<27, 91, 65>>, <<27, 91, 66>>, <<27, 91, 67>>, <<27, 91, 68>>,
     <<27, 79, 72>>, <<13>>, <<127>>, <<4>>, <<19>>, <<17, 121>>,
     <<17, 110>>, <<97>>, <<9>>}

NextPuny == \E inp \in PunyInputs : PunyLoop(inp)

SpecPuny == InitPuny /\ [][NextPuny]_vars

\* ------------------------------------------------------------------ claims
Printable(k) == 32 <= k /\ k <= 126

\* the keys fed at most window_ms before the last feed, oldest first
FedInWindow ==
    SelectSeq(log, LAMBDA e : log[Len(log)].time - e.time <= 400)

\* the printable key codes among them
PrintableFed ==
    LET p == SelectSeq(FedInWindow, LAMBDA e : Printable(e.key))
    IN  [i \in DOMAIN p |-> p[i].key]

\* the grammar, written out: dd, cc, wr, ii
Grammar ==
    {<<<<100, 100>>, "delete">>, <<<<99, 99>>, "clone">>,
     <<<<119, 114>>, "wrap">>, <<<<105, 105>>, "insert">>}

\* C1: feed returns an Intent exactly when the printable keys of the window,
\* after the key is appended and the window trimmed, spell a phrase of the
\* grammar as a whole (same case, nothing before or after it); the Intent
\* then names that phrase and the grammar's action for it.
C1_ExactPhrase ==
    log # <<>> =>
        /\ intent = log[Len(log)].out
        /\ (intent # None) <=> (\E g \in Grammar : g[1] = PrintableFed)
        /\ intent # None =>
               <<intent[1].phrase, intent[1].name>> \in Grammar
               /\ intent[1].phrase = PrintableFed

\* "wr" is recognised right after a window that held a third letter
C1_Witness ==
    /\ Len(log) = 4
    /\ log[3].out = None
    /\ log[3].key = 119
    /\ intent # None
    /\ intent[1].name = "wrap"
    /\ Len(buffer) < Len(log)

\* C4: a feed that recognises no phrase returns none and leaves
\* last_intent_phrase, last_intent_time and repeat_level as they were; a 'z'
\* never yields an Intent.
C4_NoMatchKeepsRepetition ==
    /\ [][(nkeys' = nkeys + 1 /\ intent' = None)
            => UNCHANGED repetition_vars]_vars
    /\ [](last_key = Some(122) => intent = None)

\* after an emission, the window was trimmed down to a lone 'z'
C4_Witness ==
    /\ repeat_level = 1
    /\ last_intent_phrase = Some(<<100, 100>>)
    /\ last_key = Some(122)
    /\ intent = None
    /\ Len(buffer) = 1
    /\ Len(log) >= 3

\* the key codes of the window
WindowCodes == [i \in DOMAIN buffer |-> buffer[i].key]

\* C9: when the window is 'd', then only non-printable keys (at least one),
\* then 'd', the feed of the second 'd' emits the Intent of "dd".
C9_NonPrintableSkipped ==
    LET c == WindowCodes
    IN  (/\ Len(c) >= 3
         /\ c[1] = 100
         /\ c[Len(c)] = 100
         /\ \A m \in 2..(Len(c) - 1) : ~Printable(c[m]))
        => /\ intent # None
           /\ intent[1].phrase = <<100, 100>>
           /\ intent[1].name = "delete"

\* d, ESC, d within the window
C9_Witness ==
    /\ WindowCodes = <<100, 27, 100>>
    /\ last_key = Some(100)
    /\ intent # None

\* the last feed before the n-th that returned an Intent, 0 if there is none
PrevEmit(n) ==
    LET E == {m \in 1..(n - 1) : log[m].out # None}
    IN  IF E = {} THEN 0 ELSE CHOOSE m \in E : \A k \in E : k <= m

\* C3: the level of every Intent is one more than the level of the Intent
\* emitted before it when that one was for the same phrase and at most 600 ms
\* earlier, and 1 otherwise; the keys fed in between play no part.  The
\* engine then remembers the phrase, the time and the level of the last
\* Intent.
C3_Repetition ==
    /\ \A n \in DOMAIN log :
          log[n].out # None =>
              LET e == PrevEmit(n)
              IN  log[n].out[1].level =
                      IF /\ e # 0
                         /\ log[e].out[1].phrase = log[n].out[1].phrase
                         /\ log[n].time - log[e].time <= 600
                      THEN log[e].out[1].level + 1
                      ELSE 1
    /\ LET e == PrevEmit(Len(log) + 1)
       IN  e # 0 =>
              /\ last_intent_phrase = Some(log[e].out[1].phrase)
              /\ last_intent_time = Some(log[e].time)
              /\ repeat_level = log[e].out[1].level

\* "dd" at level 2, a key 250 ms before the next "dd", which comes more than
\* 600 ms after the last Intent and is at level 1 again
C3_Witness ==
    /\ Len(log) = 5
    /\ log[3].out # None
    /\ log[3].out[1].level = 2
    /\ log[4].out = None
    /\ log[5].time - log[4].time = 250
    /\ log[5].time - log[3].time > 600
    /\ log[5].out # None
    /\ log[5].out[1].phrase = log[3].out[1].phrase
    /\ log[5].out[1].level = 1
    /\ repeat_level = 1

\* C2: once "dd" was recognised at level 1, 'd', 'd' typed within one window
\* from 100 ms later on and within 600 ms of that Intent yields an Intent of
\* level 2, of scope line when its confidence is high; 'd', 'd' typed 700 ms
\* or more after the last Intent yields one of level 1.
C2_RepeatEscalates ==
    \A n \in DOMAIN log :
        LET e == PrevEmit(n - 1)
        IN  (/\ e # 0
             /\ e = n - 2
             /\ log[e].out[1].phrase = <<100, 100>>
             /\ log[n - 1].key = 100
             /\ log[n].key = 100
             /\ log[n - 1].time - log[e].time >= 100
             /\ log[n].time - log[n - 1].time <= 400)
            => /\ (log[e].out[1].level = 1 /\ log[n].time - log[e].time <= 600)
                  => /\ log[n].out # None
                     /\ log[n].out[1].level = 2
                     /\ log[n].out[1].confidence = "high"
                           => log[n].out[1].scope = "line"
               /\ log[n - 1].time - log[e].time >= 700
                  => /\ log[n].out # None
                     /\ log[n].out[1].level = 1

\* the keystrokes fed at most window_ms before the last feed, oldest first
KeptKeystrokes ==
    [i \in DOMAIN FedInWindow |->
        [key |-> FedInWindow[i].key, time |-> FedInWindow[i].time]]

\* C5: after every feed the window is made of exactly the keystrokes fed at
\* most 400 ms before it (400 included), in the order they were fed, and a
\* key fed more than 400 ms after the key before it yields no Intent.
C5_WindowPruned ==
    log # <<>> =>
        /\ clock = log[Len(log)].time
        /\ \A i \in DOMAIN buffer : clock - buffer[i].time <= 400
        /\ buffer = KeptKeystrokes
        /\ \A n \in 2..Len(log) :
              log[n].time - log[n - 1].time > 400 => log[n].out = None

\* a keystroke aged exactly 400 ms is still in the window, an older one is not
C5_Witness ==
    /\ Len(log) = 4
    /\ Len(buffer) = 3
    /\ clock - log[1].time > 400
    /\ clock - buffer[1].time = 400
    /\ intent # None

\* the confidence the claim gives a window: the gaps between adjacent entries
\* add up to last time - first time, and there are Len - 1 of them
ClaimedConfidence(w) ==
    IF Len(w) < 2 THEN "low"
    ELSE LET total == w[Len(w)].time - w[1].time
             gaps  == Len(w) - 1
         IN  IF total < 120 * gaps THEN "high"
             ELSE IF total < 250 * gaps THEN "medium"
             ELSE "low"

\* C6: the confidence of an Intent, and of the window of any engine state, is
\* low for fewer than 2 entries, else high, medium or low as the mean gap
\* between adjacent entries (non-printable ones included) is below 120 ms,
\* below 250 ms, or not.
C6_Confidence ==
    /\ intent # None => intent[1].confidence = ClaimedConfidence(buffer)
    /\ probe # None => probe[1] = ClaimedConfidence(buffer)

\* d, ESC 240 ms later, d at once: the mean gap is exactly 120 ms
C6_Witness ==
    /\ WindowCodes = <<100, 27, 100>>
    /\ buffer[3].time - buffer[1].time = 240
    /\ intent # None
    /\ intent[1].confidence = "medium"

\* the scope by confidence and level 1..4
ScopeTable ==
    [c \in {"low", "medium", "high"} |->
        IF c = "low" THEN <<"character", "character", "block", "block">>
        ELSE <<"word", "line", "block", "block">>]

\* C7: the scope of every Intent is the entry of the table for its confidence
\* and level: block from level 3 on, else line (level 2) or word (level 1)
\* at high and at medium confidence, else character.
C7_ScopeTable ==
    intent # None =>
        LET it == intent[1]
        IN  /\ it.confidence \in {"low", "medium", "high"}
            /\ it.level >= 1
            /\ it.scope = IF it.level <= 4
                          THEN ScopeTable[it.confidence][it.level]
                          ELSE "block"

\* level 4 at medium confidence
C7_Witness ==
    /\ intent # None
    /\ intent[1].level = 4
    /\ intent[1].confidence = "medium"
    /\ intent[1].scope = "block"

\* C8: on a fresh engine 'd' at t=0 returns none and 'd' at t=50 returns the
\* Intent delete of "dd" with confidence high, level 1, scope word and preview
\* "current word".
C8_EndToEnd ==
    (/\ Len(log) >= 1
     /\ log[1].key = 100
     /\ log[1].time = 0)
    => /\ log[1].out = None
       /\ (/\ Len(log) >= 2
           /\ log[2].key = 100
           /\ log[2].time = 50)
          => /\ log[2].out # None
             /\ log[2].out[1].name = "delete"
             /\ log[2].out[1].phrase = <<100, 100>>
             /\ log[2].out[1].confidence = "high"
             /\ log[2].out[1].level = 1
             /\ log[2].out[1].scope = "word"
             /\ log[2].out[1].preview = "current word"

\* 'd' at 0 and 'd' at 50 were fed to the fresh engine
C8_Witness ==
    /\ Len(log) = 2
    /\ log[1] = [key |-> 100, time |-> 0, out |-> None]
    /\ log[2].key = 100
    /\ log[2].time = 50
    /\ intent # None

\* a key was read and handled by the editor loop in this step
KeyRead == nkeys' = nkeys + 1

\* C10: an Intent of action insert puts the editor loop in the one-shot mode,
\* and in that mode the next printable key read, whatever its code in
\* 32..126, is not fed to the engine but inserted into the line at the
\* cursor, the cursor moves one to the right and the mode ends.
C10_OneShotInsert ==
    [][/\ (KeyRead /\ log' # log /\ intent' # None
           /\ intent'[1].name = "insert") => pending_insert'
       /\ (KeyRead /\ pending_insert /\ Printable(last_key'[1]))
          => /\ log' = log
             /\ line' = SubSeq(line, 1, cursor_x) \o <<last_key'[1]>>
                           \o SubSeq(line, cursor_x + 1, Len(line))
             /\ cursor_x' = cursor_x + 1
             /\ ~pending_insert']_vars

\* the same for every printable key but 'q'
C10_OneShotInsertButQ ==
    [][/\ (KeyRead /\ log' # log /\ intent' # None
           /\ intent'[1].name = "insert") => pending_insert'
       /\ (KeyRead /\ pending_insert /\ Printable(last_key'[1])
           /\ last_key'[1] # 113)
          => /\ log' = log
             /\ line' = SubSeq(line, 1, cursor_x) \o <<last_key'[1]>>
                           \o SubSeq(line, cursor_x + 1, Len(line))
             /\ cursor_x' = cursor_x + 1
             /\ ~pending_insert']_vars

\* the shape of an Intent: its seven fields and the values they range over
IsIntent(v) ==
    /\ DOMAIN v = {"name", "phrase", "confidence", "level", "scope",
                   "reasons", "preview"}
    /\ v.phrase \in DOMAIN phrases
    /\ v.name = phrases[v.phrase]
    /\ v.confidence \in {"low", "medium", "high"}
    /\ v.level \in Nat
    /\ v.scope \in {"character", "word", "line", "block"}
    /\ Len(v.reasons) \in {1, 2}

\* C11: feed never raises, whatever integer the key code is (negative, a
\* control code, past the last code point) and whatever state the engine is
\* in (empty window, phrases that match nothing, keys with no time between
\* them): every call returns, and what it returns is none or an Intent.
C11_FeedTotal ==
    /\ raised = FALSE
    /\ Len(log) = nkeys
    /\ \A n \in DOMAIN log :
          log[n].out = None \/ (Len(log[n].out) = 1 /\ IsIntent(log[n].out[1]))

\* the key -1 has been fed between two printable keys, then a key past the
\* last code point, all at the same instant, and feed has returned each time
C11_Witness ==
    /\ ~raised
    /\ Len(log) = 4
    /\ log[1].key = 32 /\ log[2].key = -1 /\ log[3].key = 126
    /\ log[4].key = 1114112
    /\ log[4].time = log[1].time
    /\ Len(buffer) = 4
    /\ \A n \in 1..4 : log[n].out = None

\* the preview the contract gives each scope
PreviewTable ==
    ("character" :> "current character") @@ ("word" :> "current word") @@
    ("line" :> "current line") @@ ("block" :> "current block")

\* C14: the preview of every Intent feed has returned is the one its scope
\* alone selects (character, word, line, block -> "current " + scope), and
\* "unknown" is the preview of none of them.
C14_PreviewByScope ==
    \A n \in DOMAIN log :
        log[n].out # None =>
            /\ log[n].out[1].scope \in DOMAIN PreviewTable
            /\ log[n].out[1].preview = PreviewTable[log[n].out[1].scope]
            /\ log[n].out[1].preview # "unknown"

\* Intents of scope character, line and block have been returned in one run
\* (d, d 250 ms apart, then two ESC), each with the preview of its scope
C14_Witness ==
    \A sc \in {"character", "line", "block"} :
        \E n \in DOMAIN log :
            /\ log[n].out # None
            /\ log[n].out[1].scope = sc
            /\ log[n].out[1].preview = PreviewTable[sc]

\* the words the contract gives each confidence tier
TierReason ==
    ("high" :> "fast typing") @@ ("medium" :> "moderate typing speed") @@
    ("low" :> "slow or deliberate typing")

\* the repeat count as _explain words it, for the levels a run can reach
RepeatReason ==
    (2 :> "repeated intent (x2)") @@ (3 :> "repeated intent (x3)") @@
    (4 :> "repeated intent (x4)") @@ (5 :> "repeated intent (x5)") @@
    (6 :> "repeated intent (x6)") @@ (7 :> "repeated intent (x7)")

\* C15: the reasons of every Intent feed has returned are one or two strings;
\* the first is the description of the Intent's confidence tier; there is a
\* second one exactly when the level is above 1, and it states the level.
C15_Reasons ==
    \A n \in DOMAIN log :
        log[n].out # None =>
            LET it == log[n].out[1]
            IN  /\ Len(it.reasons) \in {1, 2}
                /\ it.reasons[1] = TierReason[it.confidence]
                /\ Len(it.reasons) = 2 <=> it.level > 1
                /\ it.level > 1 => it.reasons[2] = RepeatReason[it.level]

\* one run has returned an Intent of level 1 with one reason and Intents of
\* level 2 and 3 with two, and Intents of all three confidence tiers
C15_Witness ==
    /\ \E n \in DOMAIN log :
          /\ log[n].out # None
          /\ log[n].out[1].level = 1
          /\ Len(log[n].out[1].reasons) = 1
    /\ \A l \in {2, 3} :
          \E n \in DOMAIN log :
              /\ log[n].out # None
              /\ log[n].out[1].level = l
              /\ log[n].out[1].reasons[2] = RepeatReason[l]
    /\ \A c \in DOMAIN TierReason :
          \E n \in DOMAIN log :
              /\ log[n].out # None
              /\ log[n].out[1].confidence = c
              /\ log[n].out[1].reasons[1] = TierReason[c]

\* feed has returned an Intent at least once
Emitted == \E n \in DOMAIN log : log[n].out # None

\* C16: the repetition level is an integer >= 0; it is 0 exactly while no
\* Intent has been returned yet, which is exactly while last_intent_phrase
\* and last_intent_time are unset; an Intent just returned has a level >= 1
\* that is the engine's level, a confidence of low, medium or high and a
\* scope of character, word, line or block.
C16_LevelInvariant ==
    /\ repeat_level \in Nat
    /\ repeat_level = 0 <=> ~Emitted
    /\ ~Emitted <=> (last_intent_phrase = None /\ last_intent_time = None)
    /\ last_intent_phrase = None <=> last_intent_time = None
    /\ \A n \in DOMAIN log :
          log[n].out # None =>
              /\ log[n].out[1].level \in Nat \ {0}
              /\ log[n].out[1].confidence \in {"low", "medium", "high"}
              /\ log[n].out[1].scope \in {"character", "word", "line", "block"}
    /\ intent # None => intent[1].level = repeat_level

\* the engine is at level 2 after its last feed returned an Intent of level
\* 2, an earlier feed having returned one of level 1 and others none; the
\* level had fallen back to 1 in between
C16_Witness ==
    /\ repeat_level = 2
    /\ intent # None /\ intent[1].level = 2
    /\ Len(log) = 5
    /\ log[1].out = None
    /\ log[2].out # None /\ log[2].out[1].level = 1
    /\ log[4].out # None /\ log[4].out[1].level = 1
    /\ log[5].out = intent

\* feed e returned an Intent, every key fed after it up to feed n is
\* non-printable, and at feed n the printable keys of e's window (the
\* keystrokes of its phrase) are still at most window_ms old
StillInWindow(e, n) ==
    /\ e < n
    /\ log[e].out # None
    /\ \A m \in (e + 1)..n : ~Printable(log[m].key)
    /\ \A m \in 1..e :
          (Printable(log[m].key) /\ log[e].time - log[m].time <= window_ms)
              => log[n].time - log[m].time <= window_ms

\* C18: an emission leaves the window as it is: after an Intent for phrase p,
\* every feed of a non-printable key made while p's keystrokes are all still
\* within window_ms, no printable key having arrived since, returns an Intent
\* for p again, of level one more than the Intent returned by the feed before.
C18_ReEmission ==
    \A e \in DOMAIN log, n \in DOMAIN log :
        StillInWindow(e, n) =>
            /\ log[n].out # None
            /\ log[n - 1].out # None
            /\ log[n].out[1].phrase = log[e].out[1].phrase
            /\ log[n].out[1].level = log[n - 1].out[1].level + 1
            /\ log[n].out[1].level = log[e].out[1].level + (n - e)

\* dd typed once, then two non-printable keys within the window (the second
\* one 250 ms later): levels 1, 2, 3 and block scope, with only two printable
\* keys ever fed
C18_Witness ==
    /\ Len(log) = 4
    /\ log[1].key = 100 /\ log[2].key = 100
    /\ log[3].key = 27 /\ log[4].key = 27
    /\ log[4].time - log[3].time = 250
    /\ StillInWindow(2, 4)
    /\ log[2].out # None /\ log[2].out[1].level = 1
    /\ log[3].out # None /\ log[3].out[1].level = 2
    /\ log[4].out # None /\ log[4].out[1].level = 3
    /\ log[4].out[1].scope = "block"

\* the key just read went to feed, which returned a delete Intent of scope sc
DeleteApplied(sc) ==
    /\ Len(log') = Len(log) + 1
    /\ intent' # None
    /\ intent'[1].name = "delete"
    /\ intent'[1].scope = sc

\* s without its characters at the 0-based indices a .. b - 1
Without(s, a, b) ==
    [i \in 1..(Len(s) - (b - a)) |-> IF i <= a THEN s[i] ELSE s[i + (b - a)]]

\* the 0-based indices >= x of s that hold a non-whitespace character with
\* nothing but whitespace between x and them: the start of the next word
WordStart(s, x) ==
    {st \in x..(Len(s) - 1) :
        /\ ~IsSpace(s[st + 1])
        /\ \A j \in x..(st - 1) : IsSpace(s[j + 1])}

\* where the maximal run of non-whitespace that starts at st ends
WordEnd(s, st) ==
    CHOOSE en \in (st + 1)..Len(s) :
        /\ \A j \in st..(en - 1) : ~IsSpace(s[j + 1])
        /\ en = Len(s) \/ IsSpace(s[en + 1])

\* C12: when the key read gives a delete Intent of scope word, the loop
\* skips the whitespace from the cursor on, removes the maximal run of
\* non-whitespace that follows it, keeps the whitespace it skipped and
\* leaves the cursor where the removed run began; with the cursor at the
\* end of the line or nothing but whitespace after it, line and cursor stay.
C12_DeleteWord ==
    [][DeleteApplied("word") =>
          IF WordStart(line, cursor_x) = {}
          THEN line' = line /\ cursor_x' = cursor_x
          ELSE LET st == CHOOSE st \in WordStart(line, cursor_x) : TRUE
               IN  /\ line' = Without(line, st, WordEnd(line, st))
                   /\ cursor_x' = st
                   /\ Upto(line', st) = Upto(line, st)]_vars

\* dd has just given a delete Intent of scope word and left the line " a"
\* with the cursor at 0, which only "a a" with the cursor at 0 becomes: the
\* first word is gone, the space and the second word are kept
C12_Witness ==
    /\ nkeys = 2
    /\ Len(log) = 2
    /\ intent # None
    /\ intent[1].name = "delete"
    /\ intent[1].scope = "word"
    /\ line = <<32, 97>>
    /\ cursor_x = 0

\* C13: when the key read gives a delete Intent of scope character, the
\* loop removes the character under the cursor and leaves the cursor, if
\* the cursor is inside the line; at the end of a non-empty line it removes
\* the character before the cursor and moves the cursor left by one; on an
\* empty line nothing changes.
C13_DeleteCharacter ==
    [][DeleteApplied("character") =>
          IF cursor_x < Len(line)
          THEN /\ line' = Without(line, cursor_x, cursor_x + 1)
               /\ cursor_x' = cursor_x
          ELSE IF Len(line) > 0
          THEN /\ line' = Without(line, cursor_x - 1, cursor_x)
               /\ cursor_x' = cursor_x - 1
          ELSE line' = line /\ cursor_x' = cursor_x]_vars

\* d, d 300 ms apart have just given a delete Intent of scope character and
\* left the line "a " with the cursor at 0, which only a three-character
\* line with the cursor at 0 becomes: the character under the cursor is gone
C13_Witness ==
    /\ nkeys = 2
    /\ Len(log) = 2
    /\ intent # None
    /\ intent[1].name = "delete"
    /\ intent[1].scope = "character"
    /\ intent[1].confidence = "low"
    /\ line = <<97, 32>>
    /\ cursor_x = 0

\* C19: after every key the editor loop has processed (arrows, one-shot
\* inserts, delete Intents of scope character and word) the cursor is
\* inside the line or just past its last character.
C19_CursorInLine ==
    0 <= cursor_x /\ cursor_x <= Len(line)

\* ii and then d typed with the cursor at the end of a line of MaxLine
\* characters: the d is inserted and the cursor is at the new end
C19_Witness ==
    /\ nkeys = 3
    /\ last_key = Some(100)
    /\ ~pending_insert
    /\ Len(line) = MaxLine + 1
    /\ line[MaxLine + 1] = 100
    /\ cursor_x = Len(line)

\* C17: whenever the buffer of puny.py is not what was loaded or last saved,
\* dirty is true, whatever keys were typed (printable keys, Enter, Backspace
\* with its merge at column 0, Ctrl+D, Ctrl+S); so Ctrl+Q has not left the
\* editor without its prompt while the buffer had unsaved changes.
C17_DirtyTracksChanges ==
    /\ puny_buffer # saved => dirty
    /\ puny_exit = "unprompted" => puny_buffer = saved

\* C20: the buffer of puny.py has at least one line, the cursor row is the
\* index of one of its lines and the cursor column is inside that line or
\* just past its end, after every iteration of the main loop.
C20_CursorInBuffer ==
    /\ Len(puny_buffer) >= 1
    /\ 0 <= cursor_row /\ cursor_row < Len(puny_buffer)
    /\ 0 <= cursor_col /\ cursor_col <= Len(puny_buffer[cursor_row + 1])

\* the file held "a" and "aa"; Backspace at column 0 of the second line has
\* merged it into the first, and the cursor is where the two were joined
C20_Witness ==
    /\ saved = <<(<<97>>), <<97, 97>>>>
    /\ puny_buffer = <<(<<97, 97, 97>>)>>
    /\ ~dirty
    /\ puny_exit = "no"
    /\ cursor_row = 0
    /\ cursor_col = 1
====
